---- MODULE Spec2Model ----
(***************************************************************************)
(* Model of the BetCode marketplace server: credential hashing, the        *)
(* session / identity layer, the authorization gates, e-mail verification  *)
(* and the admin back office, as implemented in src/schema.ts (auth),      *)
(* src/storage.ts (data access) and src/unnamed/part_000 (routes).         *)
(*                                                                         *)
(* A request is a little process: one step per storage access, the local   *)
(* computation that follows an access being part of the same step (Node    *)
(* runs the code between two awaits without interleaving).                 *)
(***************************************************************************)
EXTENDS Integers, Sequences, FiniteSets, TLC

\* ------------------------------------------------------------------ bounds
MaxSid == 2
MaxTok == 2
MaxTicks == 2

\* ------------------------------------------------------- input domains
Conns == {"c1", "c2"}
Names == {"alice", "bob"}
Emails == {"a@x.io", "b@x.io"}
Plaintexts == {"secret123", "wrong"}
Salts == {"5a17", "c0de"}
\* the salts drawn while serving requests
RequestSalts == {"5a17"}
Null == "null"

\* ------------------------------------------------------- program constants
TokenWindowMsHour == 60 * 60 * 1000
TokenWindowMs == 24 * 60 * 60 * 1000
TickMs == 24 * 60 * 60 * 1000
MinUsernameLen == 3
MinPasswordLen == 6

VARIABLES users, sessions, nextSid, cookie, req, last, now, nextTok, ads, betCodes, kdf,
          transactions, reviews, adminIssued, listing

vars == <<users, sessions, nextSid, cookie, req, last, now, nextTok, ads, betCodes, kdf,
          transactions, reviews, adminIssued, listing>>
\* the trade tables, the count of admin logins and the advertisement query
market == <<transactions, reviews, adminIssued, listing>>
store == <<users, sessions, ads, betCodes, transactions, reviews>>

\* ============================================================ credential hashing
\* A verifier is the string `${hex(key)}.${salt}`; it is modelled as the
\* sequence of its lexical chunks: a derived key, the delimiter, a hex salt,
\* or raw text that is none of these.
Dot == [k |-> "dot", a |-> "", b |-> ""]
HexChunk(s) == [k |-> "hex", a |-> s, b |-> ""]
RawChunk(s) == [k |-> "raw", a |-> s, b |-> ""]

\* scrypt(password, salt, 64), taken to be injective on (password, salt)
scryptAsync(password, salt) == [k |-> "key", a |-> password, b |-> salt]

\* `${buf.toString("hex")}.${salt}` with the salt that randomBytes(16) drew
hashPasswordSaltFirst(password, salt) ==
    <<HexChunk(salt), Dot, scryptAsync(password, salt)>>
hashPassword(password, salt) ==
    <<scryptAsync(password, salt), Dot, HexChunk(salt)>>

\* String.prototype.split("."): the segments between the delimiters
RECURSIVE SplitDot(_)
SplitDot(s) ==
    IF \A i \in 1..Len(s) : s[i] # Dot
    THEN <<s>>
    ELSE LET i == CHOOSE j \in 1..Len(s) :
                      s[j] = Dot /\ \A m \in 1..(j - 1) : s[m] # Dot
         IN  <<SubSeq(s, 1, i - 1)>> \o SplitDot(SubSeq(s, i + 1, Len(s)))

\* comparePasswords: "true" / "false", or "throw" when scrypt rejects an
\* undefined salt or timingSafeEqual rejects buffers of different lengths
comparePasswords(supplied, stored) ==
    LET parts == SplitDot(stored)
        hashed == parts[1]
    IN  IF Len(parts) < 2 THEN "throw"
        ELSE LET salt == parts[2]
                 saltText == IF Len(salt) = 1 /\ salt[1].k = "hex"
                             THEN salt[1].a ELSE "other"
                 suppliedBuf == scryptAsync(supplied, saltText)
             IN  IF Len(hashed) # 1 \/ hashed[1].k # "key" THEN "throw"
                 ELSE IF hashed[1] = suppliedBuf THEN "true" ELSE "false"

\* a stored verifier without delimiter (an unhashed password written by hand)
MalformedVerifier == <<RawChunk("plain")>>

\* ============================================================ data access layer
NoUser == 0
\* a NULL verification_token / verification_token_expiry column
NoToken == 0
NoExpiry == -1
UserIds == 1..Len(users)

\* storage.getUser / passport.deserializeUser: the row with that id
getUser(id) == IF id \in UserIds THEN id ELSE NoUser

\* storage.getUserByUsername / getUserByEmail: `const [user] = rows`
getUserByUsername(username) ==
    IF \E i \in UserIds : users[i].username = username
    THEN CHOOSE i \in UserIds : users[i].username = username
    ELSE NoUser
getUserByEmail(email) ==
    IF \E i \in UserIds : users[i].email = email
    THEN CHOOSE i \in UserIds : users[i].email = email
    ELSE NoUser

\* storage.getUserByVerificationToken: every row holding that token
getUserByVerificationToken(token) ==
    {i \in UserIds : users[i].verificationToken = token}

\* the columns of a row as the queries return it
UserColumns ==
    {"username", "email", "password", "fullName", "isAdmin",
     "isEmailVerified", "verificationToken", "verificationTokenExpiry",
     "bankDetails"}

\* insertUserSchema.parse: the omitted columns, like any key the schema
\* does not know, are stripped from the body
insertUserSchema(body) ==
    [f \in DOMAIN body \cap (UserColumns \ {"isAdmin", "isEmailVerified",
                                             "verificationToken",
                                             "verificationTokenExpiry"}) |->
        body[f]]

\* storage.createUser: values({...insertUser, isAdmin: false}) with the
\* hashed password the handler put in; the columns the insert leaves out
\* take their defaults
createUser(insertUser, verifier) ==
    LET defaults == [fullName |-> Null, isEmailVerified |-> FALSE,
                     verificationToken |-> NoToken,
                     verificationTokenExpiry |-> NoExpiry,
                     bankDetails |-> Null]
    IN  [f \in UserColumns |->
            IF f = "isAdmin" THEN FALSE
            ELSE IF f = "password" THEN verifier
            ELSE IF f \in DOMAIN insertUser THEN insertUser[f]
            ELSE defaults[f]]

\* `const { password, ...userWithoutPassword } = user`
WithoutPassword(columns) == columns \ {"password"}

\* the unique constraints of the users table, checked by the insert itself
UniqueViolation(insertUser) ==
    \E i \in UserIds : \/ users[i].username = insertUser.username
                       \/ users[i].email = insertUser.email

\* storage.updateUser: UPDATE ... SET userData WHERE id = ...; only the
\* columns named in userData change
updateUser(id, userData) ==
    [users EXCEPT ![id] =
        [f \in DOMAIN users[id] |->
            IF f \in DOMAIN userData THEN userData[f] ELSE users[id][f]]]

\* ============================================================ session layer
Sids == 1..MaxSid
NoSid == 0

\* the identity reference held by the session record the cookie names
SessUid(c) == IF cookie[c] = NoSid THEN NoUser ELSE sessions[cookie[c]]

\* passport.session + deserializeUser, then req.isAuthenticated():
\* the session names an identity and the store still has its row
isAuthenticated(c) == getUser(SessUid(c)) # NoUser

\* passport.deserializeUser: req.user is the row storage.getUser(id) returns
\* when the request arrives, not the row as it was when the session began
deserializeUserAsCreated(id) == [users[id] EXCEPT !.isAdmin = FALSE]
deserializeUser(id) == users[id]

\* req.login(user): the session is regenerated under a fresh id and bound to
\* the identity (serializeUser keeps user.id only)
SessionsAfterLogin(c, uid) ==
    [s \in Sids |-> IF s = nextSid THEN uid
                    ELSE IF s = cookie[c] THEN NoUser ELSE sessions[s]]

\* req.logout + req.session.destroy: the session record is removed
SessionsAfterLogoutKept(c) == sessions
SessionsAfterLogout(c) ==
    [s \in Sids |-> IF s = cookie[c] THEN NoUser ELSE sessions[s]]

\* ============================================================ authorization gates
\* requireAuth: next() iff req.isAuthenticated()
requireAuthOpen(authed) == TRUE
requireAuth(authed) == authed

\* requireAdmin: next() iff req.isAuthenticated() && req.user.isAdmin
requireAdminAuthOnly(authed, isAdmin) == authed
requireAdmin(authed, isAdmin) == authed /\ isAdmin

\* the responses of the two gates when they do not call next(): requireAdmin
\* has one return statement for `!req.isAuthenticated() || !req.user.isAdmin`
requireAuthRejection == [status |-> 401, msg |-> "Unauthorized"]
requireAdminRejection(authed, isAdmin) ==
    [status |-> 403, msg |-> "Forbidden"]

\* requireAdminToken: next() iff the adminToken cookie is non-empty
requireAdminTokenIssued(adminToken) == adminToken \in adminIssued
requireAdminToken(adminToken) == adminToken # Null
requireAdminTokenRejection ==
    [status |-> 401, msg |-> "Admin authentication required"]

\* ============================================================ requests
AuthRoutes == {"profile"}
AdminRoutes == {"createAd"}

\* a request that holds no parsed body
NoBody == [none |-> TRUE]

IdleReq ==
    [conn |-> "", op |-> "idle", pc |-> "idle", status |-> 0, msg |-> "",
     authed |-> FALSE, admin |-> FALSE, invoked |-> FALSE, sid |-> NoSid,
     username |-> "", email |-> "", password |-> "",
     zod |-> FALSE, failed |-> FALSE, fields |-> {},
     body |-> NoBody, uid |-> NoUser, token |-> NoToken, expiry |-> NoExpiry,
     found |-> FALSE, verdict |-> "none", adminToken |-> Null, target |-> 0]

\* a request record at the start of handling: the cookie it carries and
\* whether its session is authenticated. `authed`, `admin` (the attached
\* identity's administrator flag), `invoked` (the route's handler ran),
\* `found` and `verdict` (the identity lookup and the password comparison
\* of a login) record what the middleware saw, for the properties below;
\* so do `zod` (the body failed its schema), `failed` (a storage call of
\* the handler threw) and `fields` (the columns of the identity records in
\* the response body), `adminToken` (the adminToken cookie the request
\* carried) and `target` (the row named by the path's :id).
NewReq(c, op) ==
    [IdleReq EXCEPT !.conn = c, !.op = op, !.sid = cookie[c],
                    !.authed = isAuthenticated(c)]

\* the response is sent: the handler's locals are dropped (the token of a
\* verification link is part of the request); `last` shows the response
\* (with the request it answers) that the latest step sent, if any
Respond(r, status, msg) ==
    [r EXCEPT !.pc = "done", !.status = status, !.msg = msg,
              !.body = NoBody, !.expiry = NoExpiry,
              !.token = IF r.op = "verify" THEN r.token ELSE NoToken]
Finish(c, r, status, msg) ==
    /\ req' = [req EXCEPT ![c] = IdleReq]
    /\ last' = Respond(r, status, msg)
\* the handler's promise rejects and nothing answers the request
Abandon(c, r) ==
    /\ req' = [req EXCEPT ![c] = IdleReq]
    /\ last' = [r EXCEPT !.pc = "unanswered", !.body = NoBody,
                         !.token = NoToken, !.expiry = NoExpiry]
\* the handler awaits its next storage call
Continue(c, r) ==
    /\ req' = [req EXCEPT ![c] = r]
    /\ last' = IdleReq

Free(c) == req[c].pc = "idle"

\* the request, one of whose storage calls has just thrown
Failed(r) == [r EXCEPT !.failed = TRUE]

InternalError == "Internal Server Error"
InvalidCredentials == "Invalid username or password"

\* ============================================================ inputs
RegBodies ==
    { [username |-> "alice", email |-> "a@x.io", password |-> "secret123"],
      [username |-> "bob", email |-> "b@x.io", password |-> "wrong"],
      [username |-> "bob", email |-> "a@x.io", password |-> "secret123"],
      [username |-> "alice", email |-> "b@x.io"] }

\* the bodies with no address in common
DistinctRegBodies ==
    {b \in RegBodies : ~("email" \in DOMAIN b /\ b.email = "a@x.io"
                                              /\ b.username = "bob")}

ProfileBodies ==
    { [fullName |-> "Alice A", bankDetails |-> "acct-1", isAdmin |-> TRUE] }

\* bodies of PATCH /api/admin/users/:id; updateUser is given req.body as is
AdminPatches ==
    { [isAdmin |-> TRUE], [isAdmin |-> FALSE],
      [password |-> MalformedVerifier],
      [verificationToken |-> NoToken] }
\* the patches that touch what the session layer reads
SessionPatches == {patch \in AdminPatches :
                      DOMAIN patch \subseteq {"isAdmin", "password"}}

\* registration bodies that claim the columns the schema omits
PrivilegedRegBodies ==
    { [username |-> "alice", email |-> "a@x.io", password |-> "secret123",
       fullName |-> "A", isAdmin |-> TRUE, isEmailVerified |-> TRUE],
      [username |-> "bob", email |-> "b@x.io", password |-> "wrong",
       isAdmin |-> TRUE] }

AdminCookies == {Null, "forged"}
\* the values crypto.randomBytes(32) gives POST /api/admin/login
AdminTokens == {"a1f0", "b2e1"}
AdminLoginBodies ==
    { [username |-> "admin", password |-> "admin123"],
      [username |-> "admin", password |-> "wrong"],
      [username |-> "alice", password |-> "admin123"] }
AdBodies ==
    { [title |-> "promo", description |-> "text", linkUrl |-> "/promo",
       placement |-> "all"],
      [title |-> "promo"] }
MaxAds == 1
BetCodeBodies ==
    { [platform |-> "Bet9ja", code |-> "X1", title |-> "acca", price |-> 500,
       validUntil |-> 1],
      [code |-> "X1"] }
MaxCodes == 1
\* bodies of PATCH /api/betcodes/:id; updateBetCode is given req.body as is
BetCodePatches == { [price |-> 700], [sellerId |-> 2] }
\* bodies of POST /api/transactions: what the client writes for the buyer,
\* the seller, the amount and the status is parsed and then not used
TransactionBodies ==
    { [betCodeId |-> id, buyerId |-> 1, sellerId |-> 1, amount |-> 1,
       status |-> "pending"] : id \in 1..(MaxCodes + 1) }
    \cup { [betCodeId |-> 1] }
MaxTrades == 1
TransactionStatuses == {"completed", "failed"}
\* bodies of POST /api/reviews: for a seller that may exist (1) or not (3),
\* with or without a bet code, with a reviewerId of the client's choosing
ReviewBodies ==
    { [sellerId |-> seller, betCodeId |-> id, rating |-> 5,
       reviewerId |-> seller] : seller \in {1, 3}, id \in 1..(MaxCodes + 1) }
    \cup { [sellerId |-> 1, rating |-> 5], [betCodeId |-> 1] }
MaxReviews == 1

\* insertUserSchema.parse: username, email and password are required strings
insertUserSchemaOk(body) ==
    {"username", "email", "password"} \subseteq DOMAIN body

\* fromZodError(error).message, the text that names the violated rules
ValidationMessage == "Validation error"

\* loginSchema.parse: the first violated rule's message, or "ok"
loginSchemaCheck(username, password) ==
    IF Len(username) < MinUsernameLen
    THEN "Username must be at least 3 characters"
    ELSE IF Len(password) < MinPasswordLen
    THEN "Password must be at least 6 characters"
    ELSE "ok"

\* generateVerificationToken: 32 random bytes, never drawn before
generateVerificationToken == nextTok

\* ============================================================ POST /api/register
\* body validation, then the username existence check
RegisterBegin(c, body) ==
    /\ Free(c)
    /\ LET r == [NewReq(c, "register") EXCEPT
                    !.invoked = TRUE, !.body = body,
                    !.username = body.username, !.email = body.email,
                    !.zod = ~insertUserSchemaOk(body)]
       IN  IF ~insertUserSchemaOk(body)
           THEN Finish(c, r, 400, ValidationMessage)
           ELSE IF getUserByUsername(body.username) # NoUser
           THEN Finish(c, r, 400, "Username already exists")
           ELSE Continue(c, [r EXCEPT !.pc = "regEmail"])
    /\ UNCHANGED <<users, sessions, nextSid, cookie, now, nextTok, ads, betCodes, kdf, market>>

\* the email existence check, then the token and its expiry are drawn
RegisterCheckEmail(c) ==
    /\ req[c].pc = "regEmail"
    /\ IF getUserByEmail(req[c].body.email) # NoUser
       THEN /\ Finish(c, req[c], 400, "Email already exists")
            /\ UNCHANGED nextTok
       ELSE /\ nextTok <= MaxTok
            /\ Continue(c, [req[c] EXCEPT !.pc = "regCreate",
                                         !.token = generateVerificationToken,
                                         !.expiry = now + TokenWindowMs])
            /\ nextTok' = nextTok + 1
    /\ UNCHANGED <<users, sessions, nextSid, cookie, now, ads, betCodes, kdf, market>>

\* storage.createUser({...userData, password: await hashPassword(...)})
RegisterCreate(c, salt, fail) ==
    /\ req[c].pc = "regCreate"
    /\ IF fail \/ UniqueViolation(req[c].body)
       THEN /\ Finish(c, Failed(req[c]), 500, InternalError)
            /\ UNCHANGED users
       ELSE /\ users' = Append(users,
                  createUser(insertUserSchema(req[c].body),
                             hashPassword(req[c].body.password, salt)))
            /\ Continue(c, [req[c] EXCEPT !.pc = "regUpdate",
                                         !.uid = Len(users) + 1])
    /\ UNCHANGED <<sessions, nextSid, cookie, now, nextTok, ads, betCodes, kdf, market>>

\* storage.updateUser(user.id, {token, expiry, isEmailVerified: false}),
\* then req.login(user) and the 201 response
RegisterUpdate(c, fail) ==
    /\ req[c].pc = "regUpdate"
    /\ IF fail
       THEN /\ Finish(c, Failed(req[c]), 500, InternalError)
            /\ UNCHANGED <<users, sessions, nextSid, cookie>>
       ELSE /\ nextSid <= MaxSid
            /\ users' = updateUser(req[c].uid,
                  [verificationToken |-> req[c].token,
                   verificationTokenExpiry |-> req[c].expiry,
                   isEmailVerified |-> FALSE])
            /\ sessions' = SessionsAfterLogin(c, req[c].uid)
            /\ cookie' = [cookie EXCEPT ![c] = nextSid]
            /\ nextSid' = nextSid + 1
            /\ Finish(c, [req[c] EXCEPT
                             !.fields = WithoutPassword(UserColumns)],
                      201, "Account created successfully")
    /\ UNCHANGED <<now, nextTok, ads, betCodes, kdf, market>>

\* ============================================================ POST /api/login
\* LocalStrategy verify callback followed by the authenticate callback:
\* the status and message of the response and the identity to log in
LoginOutcomeNoCompare(username, password) ==
    LET check == loginSchemaCheck(username, password)
        user == getUserByUsername(username)
    IN  IF check # "ok" THEN [status |-> 400, msg |-> check, uid |-> NoUser]
        ELSE IF user = NoUser
        THEN [status |-> 401, msg |-> InvalidCredentials, uid |-> NoUser]
        ELSE [status |-> 200, msg |-> "", uid |-> user]
LoginOutcome(username, password) ==
    LET check == loginSchemaCheck(username, password)
        user == getUserByUsername(username)
        verdict == IF user = NoUser THEN "none"
                   ELSE comparePasswords(password, users[user].password)
    IN  IF check # "ok" THEN [status |-> 400, msg |-> check, uid |-> NoUser]
        ELSE IF user = NoUser
        THEN [status |-> 401, msg |-> InvalidCredentials, uid |-> NoUser]
        ELSE IF verdict = "throw"
        THEN [status |-> 500, msg |-> InternalError, uid |-> NoUser]
        ELSE IF verdict = "false"
        THEN [status |-> 401, msg |-> InvalidCredentials, uid |-> NoUser]
        ELSE [status |-> 200, msg |-> "", uid |-> user]

Login(c, username, password) ==
    /\ Free(c)
    /\ LET out == LoginOutcome(username, password)
           user == getUserByUsername(username)
           r == [NewReq(c, "login") EXCEPT
                    !.invoked = TRUE, !.uid = user,
                    !.username = username, !.password = password,
                    !.zod = (loginSchemaCheck(username, password) # "ok"),
                    !.fields = IF out.uid # NoUser
                               THEN WithoutPassword(UserColumns) ELSE {},
                    !.found = (user # NoUser),
                    !.verdict = IF user = NoUser THEN "none"
                                ELSE comparePasswords(password,
                                                      users[user].password)]
       IN  /\ Finish(c, r, out.status, out.msg)
           /\ IF out.uid # NoUser
              THEN /\ nextSid <= MaxSid
                   /\ sessions' = SessionsAfterLogin(c, out.uid)
                   /\ cookie' = [cookie EXCEPT ![c] = nextSid]
                   /\ nextSid' = nextSid + 1
              ELSE UNCHANGED <<sessions, nextSid, cookie>>
    /\ UNCHANGED <<users, now, nextTok, ads, betCodes, kdf, market>>

\* ============================================================ POST /api/logout
Logout(c) ==
    /\ Free(c)
    /\ sessions' = SessionsAfterLogout(c)
    /\ Finish(c, [NewReq(c, "logout") EXCEPT !.invoked = TRUE],
                          200, "OK")
    /\ UNCHANGED <<users, nextSid, cookie, now, nextTok, ads, betCodes, kdf, market>>

\* ============================================================ POST /api/resend-verification
\* `if (user.isEmailVerified) return res.status(400)...`
ResendAllowedAlways(user) == TRUE
ResendAllowed(user) == ~user.isEmailVerified

\* the columns the re-issue writes
ResendFieldsExpiryOnly(token, expiry) ==
    [verificationTokenExpiry |-> expiry]
ResendFields(token, expiry) ==
    [verificationToken |-> token, verificationTokenExpiry |-> expiry]

\* the checks run on req.user, the identity as deserialized at the start of
\* the request; then the token and its expiry are drawn
ResendBegin(c) ==
    /\ Free(c)
    /\ LET r == NewReq(c, "resend")
           uid == SessUid(c)
       IN  IF ~isAuthenticated(c)
           THEN /\ Finish(c, r, 401,
                     "You must be logged in to request a verification email")
                /\ UNCHANGED nextTok
           ELSE IF ~ResendAllowed(users[uid])
           THEN /\ Finish(c, [r EXCEPT !.invoked = TRUE, !.uid = uid],
                             400, "Your email is already verified")
                /\ UNCHANGED nextTok
           ELSE /\ nextTok <= MaxTok
                /\ Continue(c,
                      [r EXCEPT !.invoked = TRUE, !.uid = uid,
                                !.pc = "resendUpdate",
                                !.token = generateVerificationToken,
                                !.expiry = now + TokenWindowMs])
                /\ nextTok' = nextTok + 1
    /\ UNCHANGED <<users, sessions, nextSid, cookie, now, ads, betCodes, kdf, market>>

\* storage.updateUser(user.id, {verificationToken, verificationTokenExpiry})
ResendUpdate(c, fail) ==
    /\ req[c].pc = "resendUpdate"
    /\ IF fail
       THEN /\ Finish(c, Failed(req[c]), 500, InternalError)
            /\ UNCHANGED users
       ELSE /\ users' = updateUser(req[c].uid,
                                   ResendFields(req[c].token, req[c].expiry))
            /\ Finish(c, req[c], 200, "Verification email sent successfully")
    /\ UNCHANGED <<sessions, nextSid, cookie, now, nextTok, ads, betCodes, kdf, market>>

\* ============================================================ GET /verify-email
\* `user.verificationTokenExpiry && new Date(expiry) < new Date()`
TokenExpiredNever(expiry) == FALSE
TokenExpired(expiry) == expiry # NoExpiry /\ expiry < now

\* the pages of the rejections: status and <h1> text
InvalidLink == "Invalid Verification Link"
ExpiredPageAsNotFound == [status |-> 404, msg |-> InvalidLink]
ExpiredPage == [status |-> 400, msg |-> "Verification Link Expired"]
NotFoundPage == [status |-> 404, msg |-> InvalidLink]

\* the columns a successful verification writes
VerifiedFieldsKeepToken == [isEmailVerified |-> TRUE]
VerifiedFields ==
    [isEmailVerified |-> TRUE, verificationToken |-> NoToken,
     verificationTokenExpiry |-> NoExpiry]

\* the lookup by token and the expiry check on users[0] of the result
VerifyBegin(c, token) ==
    /\ Free(c)
    /\ LET r == [NewReq(c, "verify") EXCEPT !.invoked = TRUE, !.token = token]
           found == getUserByVerificationToken(token)
       IN  IF token = NoToken
           THEN Finish(c, r, 400, InvalidLink)
           ELSE IF found = {}
           THEN Finish(c, r, NotFoundPage.status, NotFoundPage.msg)
           ELSE \E u \in found :
                  LET expiry == users[u].verificationTokenExpiry
                  IN  IF TokenExpired(expiry)
                      THEN Finish(c, [r EXCEPT !.uid = u],
                                  ExpiredPage.status, ExpiredPage.msg)
                      ELSE Continue(c,
                              [r EXCEPT !.uid = u, !.pc = "verifyUpdate"])
    /\ UNCHANGED <<users, sessions, nextSid, cookie, now, nextTok, ads, betCodes, kdf, market>>

\* storage.updateUser(user.id, {isEmailVerified: true, token: null, expiry: null})
VerifyUpdate(c, fail) ==
    /\ req[c].pc = "verifyUpdate"
    /\ IF fail
       THEN /\ Finish(c, Failed(req[c]), 500, "Verification Error")
            /\ UNCHANGED users
       ELSE /\ users' = updateUser(req[c].uid, VerifiedFields)
            /\ Finish(c, req[c], 200, "Email Verified Successfully!")
    /\ UNCHANGED <<sessions, nextSid, cookie, now, nextTok, ads, betCodes, kdf, market>>

\* ============================================================ PATCH /api/users/profile
\* the fields of req.body that the handler copies into `updates`
AllowedUpdatesWithAdmin == {"fullName", "bankDetails", "isAdmin"}
AllowedUpdates == {"fullName", "bankDetails"}
ProfileUpdates(body) ==
    [f \in DOMAIN body \cap AllowedUpdates |-> body[f]]

ProfileBegin(c, body) ==
    /\ Free(c)
    /\ LET r == NewReq(c, "profile")
       IN  IF ~requireAuth(isAuthenticated(c))
           THEN Finish(c, r, requireAuthRejection.status,
                       requireAuthRejection.msg)
           ELSE Continue(c,
                    [r EXCEPT !.invoked = TRUE, !.uid = SessUid(c),
                              !.body = ProfileUpdates(body),
                              !.pc = "profileUpdate"])
    /\ UNCHANGED <<users, sessions, nextSid, cookie, now, nextTok, ads, betCodes, kdf, market>>

ProfileUpdate(c, fail) ==
    /\ req[c].pc = "profileUpdate"
    /\ IF fail
       THEN /\ Finish(c, Failed(req[c]), 500, "Failed to update profile")
            /\ UNCHANGED users
       ELSE IF getUser(req[c].uid) = NoUser
       THEN /\ Finish(c, req[c], 404, "User not found")
            /\ UNCHANGED users
       ELSE /\ users' = updateUser(req[c].uid, req[c].body)
            /\ Finish(c, [req[c] EXCEPT
                             !.fields = WithoutPassword(UserColumns)],
                      200, "")
    /\ UNCHANGED <<sessions, nextSid, cookie, now, nextTok, ads, betCodes, kdf, market>>

\* ============================================================ PATCH /api/admin/users/:id
AdminUpdateUser(c, adminToken, id, patch, fail) ==
    /\ Free(c)
    /\ LET r == [NewReq(c, "adminUser") EXCEPT !.adminToken = adminToken]
       IN  IF ~requireAdminToken(adminToken)
           THEN /\ Finish(c, r, 401, "Admin authentication required")
                /\ UNCHANGED users
           ELSE IF fail
           THEN /\ Finish(c, Failed([r EXCEPT !.invoked = TRUE]), 500,
                             "Failed to update user")
                /\ UNCHANGED users
           ELSE IF getUser(id) = NoUser
           THEN /\ Finish(c, [r EXCEPT !.invoked = TRUE], 404,
                             "User not found")
                /\ UNCHANGED users
           ELSE /\ users' = updateUser(id, patch)
                /\ Finish(c, [r EXCEPT !.invoked = TRUE, !.uid = id,
                                     !.fields = UserColumns], 200, "")
    /\ UNCHANGED <<sessions, nextSid, cookie, now, nextTok, ads, betCodes, kdf, market>>

\* ============================================================ handleValidationError
\* what a catch block that calls handleValidationError(error, res) does: a
\* ZodError is answered 400 with its message, anything else is thrown again
Rethrown == [status |-> 0, msg |-> "rethrown"]
handleValidationErrorRethrowAll(error) == Rethrown
handleValidationError(error) ==
    IF error = "ZodError"
    THEN [status |-> 400, msg |-> ValidationMessage]
    ELSE Rethrown

\* an error thrown out of an async route handler rejects the promise the
\* handler returned: a router that ignores the promise leaves the request
\* without a response, one that forwards rejections to next(err) answers 500
RejectionOutcomes == {"ignored", "forwarded"}

Caught(c, r, error) ==
    LET out == handleValidationError(error)
    IN  IF out = Rethrown
        THEN \E outcome \in RejectionOutcomes :
                IF outcome = "ignored"
                THEN Abandon(c, r)
                ELSE Finish(c, r, 500, InternalError)
        ELSE Finish(c, r, out.status, out.msg)

\* ============================================================ POST /api/admin/advertisements
\* insertAdvertisementSchema.parse: the NOT NULL columns without a default
insertAdvertisementSchemaOk(body) ==
    {"title", "description", "linkUrl", "placement"} \subseteq DOMAIN body

CreateAdBegin(c, body) ==
    /\ Free(c)
    /\ LET isAdmin == isAuthenticated(c) /\ deserializeUser(SessUid(c)).isAdmin
           r == [NewReq(c, "createAd") EXCEPT !.admin = isAdmin]
           h == [r EXCEPT !.invoked = TRUE, !.uid = SessUid(c),
                          !.zod = ~insertAdvertisementSchemaOk(body)]
       IN  IF ~requireAdmin(isAuthenticated(c), isAdmin)
           THEN Finish(c, r,
                       requireAdminRejection(isAuthenticated(c), isAdmin).status,
                       requireAdminRejection(isAuthenticated(c), isAdmin).msg)
           ELSE IF ~insertAdvertisementSchemaOk(body)
           THEN Caught(c, h, "ZodError")
           ELSE Continue(c, [h EXCEPT !.body = body, !.pc = "adCreate"])
    /\ UNCHANGED <<users, sessions, nextSid, cookie, now, nextTok, ads, betCodes, kdf, market>>

\* storage.createAdvertisement(advertisementData)
CreateAd(c, fail) ==
    /\ req[c].pc = "adCreate"
    /\ IF fail
       THEN /\ Caught(c, Failed(req[c]), "StorageError")
            /\ UNCHANGED ads
       ELSE /\ Len(ads) < MaxAds
            /\ ads' = Append(ads, req[c].body)
            /\ Finish(c, req[c], 201, "")
    /\ UNCHANGED <<users, sessions, nextSid, cookie, now, nextTok, betCodes, kdf, market>>

\* ============================================================ POST /api/betcodes
\* insertBetCodeSchema.parse({...req.body, sellerId: req.user.id})
insertBetCodeSchemaOk(data) ==
    {"sellerId", "platform", "code", "title", "price", "validUntil"}
        \subseteq DOMAIN data

WithSeller(body, sellerId) ==
    [f \in DOMAIN body \cup {"sellerId"} |->
        IF f = "sellerId" THEN sellerId ELSE body[f]]

CreateBetCodeBegin(c, body) ==
    /\ Free(c)
    /\ LET r == NewReq(c, "createBetCode")
           data == WithSeller(body, SessUid(c))
           h == [r EXCEPT !.invoked = TRUE, !.uid = SessUid(c),
                          !.zod = ~insertBetCodeSchemaOk(data)]
       IN  IF ~requireAuth(isAuthenticated(c))
           THEN Finish(c, r, requireAuthRejection.status,
                       requireAuthRejection.msg)
           ELSE IF ~insertBetCodeSchemaOk(data)
           THEN Caught(c, h, "ZodError")
           ELSE Continue(c, [h EXCEPT !.body = data, !.pc = "betCodeCreate"])
    /\ UNCHANGED <<users, sessions, nextSid, cookie, now, nextTok, ads, betCodes, kdf, market>>

\* storage.createBetCode(betCodeData)
CreateBetCode(c, fail) ==
    /\ req[c].pc = "betCodeCreate"
    /\ IF fail
       THEN /\ Caught(c, Failed(req[c]), "StorageError")
            /\ UNCHANGED betCodes
       ELSE /\ Len(betCodes) < MaxCodes
            /\ betCodes' = Append(betCodes, req[c].body)
            /\ Finish(c, req[c], 201, "")
    /\ UNCHANGED <<users, sessions, nextSid, cookie, now, nextTok, ads, kdf, market>>

\* ============================================================ reads of identity records
\* the GET routes of the back office in the order registerRoutes adds
\* them: each path is registered twice, first behind requireAdminToken,
\* then behind requireAdmin
AdminRouteTable ==
    << [op |-> "adminUsers", gate |-> "requireAdminToken",
        fields |-> UserColumns, failure |-> "Failed to fetch users"],
       [op |-> "adminBetCodes", gate |-> "requireAdminToken",
        fields |-> {}, failure |-> "Failed to fetch bet codes"],
       [op |-> "adminTransactions", gate |-> "requireAdminToken",
        fields |-> {}, failure |-> "Failed to fetch transactions"],
       [op |-> "adminUsers", gate |-> "requireAdmin",
        fields |-> WithoutPassword(UserColumns),
        failure |-> "Failed to fetch users"],
       [op |-> "adminBetCodes", gate |-> "requireAdmin",
        fields |-> {}, failure |-> "Failed to fetch bet codes"],
       [op |-> "adminTransactions", gate |-> "requireAdmin",
        fields |-> {}, failure |-> "Failed to fetch transactions"] >>
AdminListings == {AdminRouteTable[i].op : i \in DOMAIN AdminRouteTable}

\* the router runs the first layer registered for the path; its gate either
\* answers or lets its handler answer, and neither calls next(): a later
\* layer of the same path is never reached
Dispatch(op) ==
    AdminRouteTable[CHOOSE i \in DOMAIN AdminRouteTable :
                       /\ AdminRouteTable[i].op = op
                       /\ \A j \in 1..(i - 1) : AdminRouteTable[j].op # op]

\* GET /api/admin/users, /api/admin/betcodes, /api/admin/transactions
AdminListing(c, op, adminToken, fail) ==
    /\ Free(c)
    /\ LET route == Dispatch(op)
           isAdmin == isAuthenticated(c) /\ deserializeUser(SessUid(c)).isAdmin
           r == [NewReq(c, op) EXCEPT !.adminToken = adminToken,
                                      !.admin = isAdmin]
           h == [r EXCEPT !.invoked = TRUE]
           passes == IF route.gate = "requireAdminToken"
                     THEN requireAdminToken(adminToken)
                     ELSE requireAdmin(isAuthenticated(c), isAdmin)
           rejection == IF route.gate = "requireAdminToken"
                        THEN requireAdminTokenRejection
                        ELSE requireAdminRejection(isAuthenticated(c), isAdmin)
       IN  IF ~passes
           THEN Finish(c, r, rejection.status, rejection.msg)
           ELSE IF fail
           THEN Finish(c, Failed(h), 500, route.failure)
           ELSE Finish(c, [h EXCEPT !.fields = IF op = "adminUsers"
                                                  /\ Len(users) = 0
                                               THEN {} ELSE route.fields],
                       200, "")
    /\ UNCHANGED <<users, sessions, nextSid, cookie, now, nextTok, ads, betCodes, kdf, market>>

\* GET /api/admin/users: res.json(getAllUsers())
AdminGetUsers(c, adminToken, fail) ==
    AdminListing(c, "adminUsers", adminToken, fail)

\* POST /api/admin/login: the fixed credential pair is answered with a
\* fresh adminToken cookie; the server keeps no record of it (adminIssued
\* is the history of the cookies sent, which no code reads)
AdminLogin(c, body, token) ==
    /\ Free(c)
    /\ LET r == [NewReq(c, "adminLogin") EXCEPT !.invoked = TRUE,
                                                !.username = body.username]
       IN  IF body.username = "admin" /\ body.password = "admin123"
           THEN /\ adminIssued' = adminIssued \cup {token}
                /\ Finish(c, [r EXCEPT !.adminToken = token], 200,
                          "Admin login successful")
           ELSE /\ Finish(c, r, 401, "Invalid admin credentials")
                /\ UNCHANGED adminIssued
    /\ UNCHANGED <<users, sessions, nextSid, cookie, now, nextTok, ads, betCodes, kdf,
                   transactions, reviews, listing>>

\* POST /api/admin/logout behind requireAdminToken: res.clearCookie
AdminLogout(c, adminToken) ==
    /\ Free(c)
    /\ LET r == [NewReq(c, "adminLogout") EXCEPT !.adminToken = adminToken]
       IN  IF ~requireAdminToken(adminToken)
           THEN Finish(c, r, requireAdminTokenRejection.status,
                       requireAdminTokenRejection.msg)
           ELSE Finish(c, [r EXCEPT !.invoked = TRUE], 200,
                       "Admin logout successful")
    /\ UNCHANGED <<users, sessions, nextSid, cookie, now, nextTok, ads, betCodes, kdf, market>>

\* GET /api/user: req.user without its password
GetCurrentUser(c) ==
    /\ Free(c)
    /\ LET r == NewReq(c, "user")
       IN  IF ~isAuthenticated(c)
           THEN Finish(c, r, 401, "Unauthorized")
           ELSE Finish(c, [r EXCEPT !.invoked = TRUE, !.uid = SessUid(c),
                                    !.fields = WithoutPassword(UserColumns)],
                       200, "")
    /\ UNCHANGED <<users, sessions, nextSid, cookie, now, nextTok, ads, betCodes, kdf, market>>

\* GET /api/sellers/:id: the row without password, bankDetails and isAdmin
GetSeller(c, id) ==
    /\ Free(c)
    /\ LET r == [NewReq(c, "seller") EXCEPT !.invoked = TRUE]
       IN  IF getUser(id) = NoUser
           THEN Finish(c, r, 404, "Seller not found")
           ELSE Finish(c, [r EXCEPT !.uid = id,
                                    !.fields = UserColumns \
                                        {"password", "bankDetails", "isAdmin"}],
                       200, "")
    /\ UNCHANGED <<users, sessions, nextSid, cookie, now, nextTok, ads, betCodes, kdf, market>>

\* ============================================================ bet code rows
NoBetCode == 0
\* the place of a deleted row: ids are not reused
DeletedRow == [deleted |-> TRUE]

getBetCode(id) ==
    IF id \in 1..Len(betCodes) /\ betCodes[id] # DeletedRow
    THEN id ELSE NoBetCode

\* db.update(betCodes).set(betCodeData).where(eq(betCodes.id, id))
updateBetCode(id, betCodeData) ==
    [betCodes EXCEPT ![id] =
        [f \in DOMAIN betCodes[id] \cup DOMAIN betCodeData |->
            IF f \in DOMAIN betCodeData THEN betCodeData[f]
            ELSE betCodes[id][f]]]

deleteBetCode(id) == [betCodes EXCEPT ![id] = DeletedRow]

\* the foreign keys: a seller must be an identity, and a bet code that a
\* transaction or a review references cannot be deleted
SellerMissing(betCodeData) ==
    "sellerId" \in DOMAIN betCodeData /\ getUser(betCodeData.sellerId) = NoUser
Referenced(id) ==
    \/ \E i \in 1..Len(transactions) : transactions[i].betCodeId = id
    \/ \E i \in 1..Len(reviews) :
          "betCodeId" \in DOMAIN reviews[i] /\ reviews[i].betCodeId = id

\* `betCode.sellerId !== req.user.id && !req.user.isAdmin` is the refusal
MayModifyAnyone(sellerId, uid, isAdmin) == TRUE
MayModify(sellerId, uid, isAdmin) == sellerId = uid \/ isAdmin

\* ============================================================ PATCH /api/betcodes/:id
\* requireAuth, getBetCode, the ownership test
PatchBetCodeBegin(c, id, patch, fail) ==
    /\ Free(c)
    /\ LET isAdmin == isAuthenticated(c) /\ deserializeUser(SessUid(c)).isAdmin
           r == [NewReq(c, "patchBetCode") EXCEPT !.admin = isAdmin,
                                                  !.target = id]
           h == [r EXCEPT !.invoked = TRUE, !.uid = SessUid(c)]
       IN  IF ~requireAuth(isAuthenticated(c))
           THEN Finish(c, r, requireAuthRejection.status,
                       requireAuthRejection.msg)
           ELSE IF fail
           THEN Finish(c, Failed(h), 500, "Failed to update bet code")
           ELSE IF getBetCode(id) = NoBetCode
           THEN Finish(c, h, 404, "Bet code not found")
           ELSE IF ~MayModify(betCodes[id].sellerId, SessUid(c), isAdmin)
           THEN Finish(c, h, 403, "Unauthorized to update this bet code")
           ELSE Continue(c, [h EXCEPT !.body = patch, !.pc = "betCodeUpdate"])
    /\ UNCHANGED <<users, sessions, nextSid, cookie, now, nextTok, ads, betCodes, kdf, market>>

\* storage.updateBetCode(betCodeId, req.body)
PatchBetCode(c, fail) ==
    /\ req[c].pc = "betCodeUpdate"
    /\ IF fail \/ SellerMissing(req[c].body)
       THEN /\ Finish(c, Failed(req[c]), 500, "Failed to update bet code")
            /\ UNCHANGED betCodes
       ELSE IF getBetCode(req[c].target) = NoBetCode
       THEN /\ Finish(c, req[c], 200, "")
            /\ UNCHANGED betCodes
       ELSE /\ betCodes' = updateBetCode(req[c].target, req[c].body)
            /\ Finish(c, req[c], 200, "")
    /\ UNCHANGED <<users, sessions, nextSid, cookie, now, nextTok, ads, kdf, market>>

\* ============================================================ DELETE /api/betcodes/:id
DeleteBetCodeBegin(c, id, fail) ==
    /\ Free(c)
    /\ LET isAdmin == isAuthenticated(c) /\ deserializeUser(SessUid(c)).isAdmin
           r == [NewReq(c, "deleteBetCode") EXCEPT !.admin = isAdmin,
                                                   !.target = id]
           h == [r EXCEPT !.invoked = TRUE, !.uid = SessUid(c)]
       IN  IF ~requireAuth(isAuthenticated(c))
           THEN Finish(c, r, requireAuthRejection.status,
                       requireAuthRejection.msg)
           ELSE IF fail
           THEN Finish(c, Failed(h), 500, "Failed to delete bet code")
           ELSE IF getBetCode(id) = NoBetCode
           THEN Finish(c, h, 404, "Bet code not found")
           ELSE IF ~MayModify(betCodes[id].sellerId, SessUid(c), isAdmin)
           THEN Finish(c, h, 403, "Unauthorized to delete this bet code")
           ELSE Continue(c, [h EXCEPT !.pc = "betCodeDelete"])
    /\ UNCHANGED <<users, sessions, nextSid, cookie, now, nextTok, ads, betCodes, kdf, market>>

\* storage.deleteBetCode(betCodeId)
DeleteBetCode(c, fail) ==
    /\ req[c].pc = "betCodeDelete"
    /\ IF fail \/ Referenced(req[c].target)
       THEN /\ Finish(c, Failed(req[c]), 500, "Failed to delete bet code")
            /\ UNCHANGED betCodes
       ELSE IF getBetCode(req[c].target) = NoBetCode
       THEN /\ Finish(c, req[c], 204, "")
            /\ UNCHANGED betCodes
       ELSE /\ betCodes' = deleteBetCode(req[c].target)
            /\ Finish(c, req[c], 204, "")
    /\ UNCHANGED <<users, sessions, nextSid, cookie, now, nextTok, ads, kdf, market>>

\* ============================================================ transaction rows
Reverse(seq) == [i \in 1..Len(seq) |-> seq[Len(seq) + 1 - i]]

\* the rows equal to params on every column params names, newest first
getTransactionsAnyStatus(params) ==
    Reverse(SelectSeq(transactions,
                      LAMBDA t : \A f \in DOMAIN params \ {"status"} :
                                    t[f] = params[f]))
getTransactions(params) ==
    Reverse(SelectSeq(transactions,
                      LAMBDA t : \A f \in DOMAIN params : t[f] = params[f]))

getTransaction(id) == IF id \in 1..Len(transactions) THEN id ELSE 0

\* insertTransactionSchema.parse: the NOT NULL columns without a default
insertTransactionSchemaOk(body) ==
    {"buyerId", "sellerId", "betCodeId", "amount", "status"}
        \subseteq DOMAIN body

serviceFee == 200
totalAmountNoFee(price) == price
totalAmount(price) == price + serviceFee

\* ============================================================ POST /api/transactions
\* requireAuth, the body's parse, getBetCode, the own-code test; the row to
\* insert is built from the session identity and the bet code just read
BuyBegin(c, body, fail) ==
    /\ Free(c)
    /\ LET r == [NewReq(c, "buy") EXCEPT
                    !.target = IF "betCodeId" \in DOMAIN body
                               THEN body.betCodeId ELSE NoBetCode]
           h == [r EXCEPT !.invoked = TRUE, !.uid = SessUid(c),
                          !.zod = ~insertTransactionSchemaOk(body)]
       IN  IF ~requireAuth(isAuthenticated(c))
           THEN Finish(c, r, requireAuthRejection.status,
                       requireAuthRejection.msg)
           ELSE IF ~insertTransactionSchemaOk(body)
           THEN Caught(c, h, "ZodError")
           ELSE IF fail
           THEN Caught(c, Failed(h), "StorageError")
           ELSE IF getBetCode(body.betCodeId) = NoBetCode
           THEN Finish(c, h, 404, "Bet code not found")
           ELSE IF betCodes[body.betCodeId].sellerId = SessUid(c)
           THEN Finish(c, h, 400, "You cannot buy your own bet code")
           ELSE Continue(c,
                    [h EXCEPT !.pc = "txCreate",
                              !.body =
                                 [buyerId |-> SessUid(c),
                                  sellerId |-> betCodes[body.betCodeId].sellerId,
                                  betCodeId |-> body.betCodeId,
                                  amount |-> totalAmount(
                                      betCodes[body.betCodeId].price),
                                  status |-> "completed"]])
    /\ UNCHANGED <<users, sessions, nextSid, cookie, now, nextTok, ads, betCodes, kdf, market>>

\* storage.createTransaction({...})
Buy(c, fail) ==
    /\ req[c].pc = "txCreate"
    /\ IF fail \/ getBetCode(req[c].target) = NoBetCode
       THEN /\ Caught(c, Failed(req[c]), "StorageError")
            /\ UNCHANGED transactions
       ELSE /\ Len(transactions) < MaxTrades
            /\ transactions' = Append(transactions, req[c].body)
            /\ Finish(c, req[c], 201, "")
    /\ UNCHANGED <<users, sessions, nextSid, cookie, now, nextTok, ads, betCodes, kdf,
                   reviews, adminIssued, listing>>

\* ============================================================ PATCH /api/admin/transactions/:id
\* requireAdminToken, getTransaction
AdminTransactionBegin(c, adminToken, id, status, fail) ==
    /\ Free(c)
    /\ LET r == [NewReq(c, "adminTransaction") EXCEPT
                    !.adminToken = adminToken, !.target = id]
           h == [r EXCEPT !.invoked = TRUE]
       IN  IF ~requireAdminToken(adminToken)
           THEN Finish(c, r, requireAdminTokenRejection.status,
                       requireAdminTokenRejection.msg)
           ELSE IF fail
           THEN Finish(c, Failed(h), 500, "Failed to update transaction")
           ELSE IF getTransaction(id) = 0
           THEN Finish(c, h, 404, "Transaction not found")
           ELSE Continue(c, [h EXCEPT !.pc = "txUpdate",
                                      !.body = [status |-> status]])
    /\ UNCHANGED <<users, sessions, nextSid, cookie, now, nextTok, ads, betCodes, kdf, market>>

\* storage.updateTransaction(transactionId, {status, notes, updatedAt})
AdminTransaction(c, fail) ==
    /\ req[c].pc = "txUpdate"
    /\ IF fail
       THEN /\ Finish(c, Failed(req[c]), 500, "Failed to update transaction")
            /\ UNCHANGED transactions
       ELSE /\ transactions' =
                  [transactions EXCEPT ![req[c].target].status =
                                           req[c].body.status]
            /\ Finish(c, req[c], 200, "")
    /\ UNCHANGED <<users, sessions, nextSid, cookie, now, nextTok, ads, betCodes, kdf,
                   reviews, adminIssued, listing>>

\* ============================================================ POST /api/reviews
\* insertReviewSchema.parse({...req.body, reviewerId: req.user.id})
insertReviewSchemaOk(data) ==
    {"sellerId", "reviewerId", "rating"} \subseteq DOMAIN data

WithReviewer(body, reviewerId) ==
    [f \in DOMAIN body \cup {"reviewerId"} |->
        IF f = "reviewerId" THEN reviewerId ELSE body[f]]

\* requireAuth, the parse, the seller's lookup
ReviewBegin(c, body, fail) ==
    /\ Free(c)
    /\ LET r == [NewReq(c, "review") EXCEPT
                    !.target = IF "betCodeId" \in DOMAIN body
                               THEN body.betCodeId ELSE NoBetCode]
           reviewData == WithReviewer(body, SessUid(c))
           h == [r EXCEPT !.invoked = TRUE, !.uid = SessUid(c),
                          !.zod = ~insertReviewSchemaOk(reviewData)]
       IN  IF ~requireAuth(isAuthenticated(c))
           THEN Finish(c, r, requireAuthRejection.status,
                       requireAuthRejection.msg)
           ELSE IF ~insertReviewSchemaOk(reviewData)
           THEN Caught(c, h, "ZodError")
           ELSE IF fail
           THEN Caught(c, Failed(h), "StorageError")
           ELSE IF getUser(reviewData.sellerId) = NoUser
           THEN Finish(c, h, 404, "Seller not found")
           ELSE Continue(c,
                    [h EXCEPT !.found = TRUE, !.body = reviewData,
                              !.pc = IF "betCodeId" \in DOMAIN reviewData
                                     THEN "reviewCode" ELSE "reviewCreate"])
    /\ UNCHANGED <<users, sessions, nextSid, cookie, now, nextTok, ads, betCodes, kdf, market>>

\* storage.getBetCode(reviewData.betCodeId)
ReviewCheckCode(c, fail) ==
    /\ req[c].pc = "reviewCode"
    /\ IF fail
       THEN Caught(c, Failed(req[c]), "StorageError")
       ELSE IF getBetCode(req[c].body.betCodeId) = NoBetCode
       THEN Finish(c, req[c], 404, "Bet code not found")
       ELSE Continue(c, [req[c] EXCEPT !.pc = "reviewPurchase"])
    /\ UNCHANGED <<users, sessions, nextSid, cookie, now, nextTok, ads, betCodes, kdf, market>>

\* storage.getTransactions({buyerId, betCodeId, status: "completed"})
ReviewCheckPurchase(c, fail) ==
    /\ req[c].pc = "reviewPurchase"
    /\ IF fail
       THEN Caught(c, Failed(req[c]), "StorageError")
       ELSE IF Len(getTransactions([buyerId |-> SessUid(c),
                                    betCodeId |-> req[c].body.betCodeId,
                                    status |-> "completed"])) = 0
       THEN Finish(c, req[c], 403,
                   "You can only review bet codes you've purchased")
       ELSE Continue(c, [req[c] EXCEPT !.pc = "reviewCreate"])
    /\ UNCHANGED <<users, sessions, nextSid, cookie, now, nextTok, ads, betCodes, kdf, market>>

\* storage.createReview(reviewData)
ReviewCreate(c, fail) ==
    /\ req[c].pc = "reviewCreate"
    /\ IF fail
       THEN /\ Caught(c, Failed(req[c]), "StorageError")
            /\ UNCHANGED reviews
       ELSE /\ Len(reviews) < MaxReviews
            /\ reviews' = Append(reviews, req[c].body)
            /\ Finish(c, req[c], 201, "")
    /\ UNCHANGED <<users, sessions, nextSid, cookie, now, nextTok, ads, betCodes, kdf,
                   transactions, adminIssued, listing>>

\* ============================================================ GET /api/advertisements
\* a NULL start_date / end_date column
NoDate == NoExpiry

\* the params the route builds: isActive always, placement and country when
\* the query string has them
AdParams(placement, country) ==
    [f \in {"isActive"} \cup (IF placement # Null THEN {"placement"} ELSE {})
                        \cup (IF country # Null THEN {"country"} ELSE {}) |->
        IF f = "isActive" THEN TRUE
        ELSE IF f = "placement" THEN placement ELSE country]

\* the conditions getAdvertisements pushes for these params, and-ed
AdMatchesNoEndDate(ad, params) ==
    /\ "placement" \in DOMAIN params => ad.placement = params.placement
    /\ "country" \in DOMAIN params
          => ad.country = params.country \/ ad.country = Null
    /\ "isActive" \in DOMAIN params => ad.isActive = params.isActive
    /\ ("isActive" \in DOMAIN params /\ params.isActive)
          => ad.startDate = NoDate \/ ad.startDate <= now
AdMatches(ad, params) ==
    /\ "placement" \in DOMAIN params => ad.placement = params.placement
    /\ "country" \in DOMAIN params
          => ad.country = params.country \/ ad.country = Null
    /\ "isActive" \in DOMAIN params => ad.isActive = params.isActive
    /\ ("isActive" \in DOMAIN params /\ params.isActive)
          => /\ ad.startDate = NoDate \/ ad.startDate <= now
             /\ ad.endDate = NoDate \/ ad.endDate >= now

\* storage.getAdvertisements: the ids of the matching rows in an order the
\* database may return for ORDER BY priority DESC (ties in any order)
getAdvertisements(params) ==
    LET ids == {i \in 1..Len(ads) : AdMatches(ads[i], params)}
    IN  {order \in [1..Cardinality(ids) -> ids] :
            /\ \A j, k \in 1..Cardinality(ids) : j # k => order[j] # order[k]
            /\ \A j, k \in 1..Cardinality(ids) :
                  j < k => ads[order[j]].priority >= ads[order[k]].priority}

GetAdvertisements(c, placement, country, fail) ==
    /\ Free(c)
    /\ listing.pc = "idle"
    /\ LET r == [NewReq(c, "advertisements") EXCEPT !.invoked = TRUE]
       IN  IF fail
           THEN /\ Finish(c, Failed(r), 500, "Failed to fetch advertisements")
                /\ listing' = [listing EXCEPT !.pc = "failed",
                                              !.placement = placement,
                                              !.country = country]
           ELSE /\ Finish(c, r, 200, "")
                /\ \E order \in getAdvertisements(AdParams(placement, country)) :
                      listing' = [pc |-> "done", placement |-> placement,
                                  country |-> country, result |-> order]
    /\ UNCHANGED <<users, sessions, nextSid, cookie, now, nextTok, ads, betCodes, kdf,
                   transactions, reviews, adminIssued>>

\* ============================================================ time
Tick ==
    /\ now < MaxTicks * TickMs
    /\ now' = now + TickMs
    /\ last' = IdleReq
    /\ UNCHANGED <<users, sessions, nextSid, cookie, req, nextTok, ads, betCodes, kdf, market>>

\* ============================================================ specification
\* the inputs and results of one hashPassword / comparePasswords exercise
KdfIdle == [pc |-> "idle", p |-> "", q |-> "", salt |-> "", salt2 |-> "",
            stored |-> <<>>, stored2 |-> <<>>, result |-> "none",
            result2 |-> "none"]

\* no advertisement query has run
ListingIdle == [pc |-> "idle", placement |-> Null, country |-> Null,
                result |-> <<>>]

\* empty trade tables, no admin login yet
InitMarket ==
    /\ transactions = <<>>
    /\ reviews = <<>>
    /\ adminIssued = {}
    /\ listing = ListingIdle

Init ==
    /\ users = <<>>
    /\ sessions = [s \in Sids |-> NoUser]
    /\ nextSid = 1
    /\ cookie = [c \in Conns |-> NoSid]
    /\ req = [c \in Conns |-> IdleReq]
    /\ last = IdleReq
    /\ now = 0
    /\ nextTok = 1
    /\ ads = <<>>
    /\ betCodes = <<>>
    /\ InitMarket
    /\ kdf = KdfIdle

\* the steps of POST /api/register
Register(c, bodies) ==
    \/ \E body \in bodies : RegisterBegin(c, body)
    \/ RegisterCheckEmail(c)
    \/ \E salt \in RequestSalts, fail \in BOOLEAN :
          RegisterCreate(c, salt, fail)
    \/ \E fail \in BOOLEAN : RegisterUpdate(c, fail)

Profile(c) ==
    \/ \E body \in ProfileBodies : ProfileBegin(c, body)
    \/ \E fail \in BOOLEAN : ProfileUpdate(c, fail)

\* every id and patch with a cookie; without a cookie, or when storage
\* fails, the id and the patch play no part
AdminUser(c, patches) ==
    \/ \E k \in AdminCookies \ {Null}, id \in 1..Cardinality(Names),
          patch \in patches : AdminUpdateUser(c, k, id, patch, FALSE)
    \/ \E k \in AdminCookies, fail \in BOOLEAN :
          /\ k = Null \/ fail
          /\ AdminUpdateUser(c, k, 1, CHOOSE patch \in patches : TRUE, fail)

CreateAdvertisement(c) ==
    \/ \E body \in AdBodies : CreateAdBegin(c, body)
    \/ \E fail \in BOOLEAN : CreateAd(c, fail)

Resend(c) ==
    \/ ResendBegin(c)
    \/ \E fail \in BOOLEAN : ResendUpdate(c, fail)

VerifyEmail(c) ==
    \/ \E t \in 0..MaxTok : VerifyBegin(c, t)
    \/ \E fail \in BOOLEAN : VerifyUpdate(c, fail)

\* sessions and gates: one client registers, logs in and out and calls the
\* guarded routes and the back office
Next ==
    \/ Register("c1", DistinctRegBodies)
    \/ \E n \in Names, p \in Plaintexts : Login("c1", n, p)
    \/ Logout("c1")
    \/ Profile("c1")
    \/ AdminUser("c1", SessionPatches)
    \/ CreateAdvertisement("c1")

Spec == Init /\ [][Next]_vars

\* e-mail verification: registration, re-issue, verification, the edits of
\* an identity, and the passage of time
NextVerify ==
    \/ Register("c1", RegBodies)
    \/ Resend("c1")
    \/ VerifyEmail("c1")
    \/ Profile("c1")
    \/ AdminUser("c1", AdminPatches)
    \/ Tick

SpecVerify == Init /\ [][NextVerify]_vars

\* the verification token alone: registration, re-issue, verification, the
\* back-office edit that clears a token, and the passage of time
TokenPatches == {patch \in AdminPatches : "verificationToken" \in DOMAIN patch}

NextToken ==
    \/ Register("c1", DistinctRegBodies)
    \/ Resend("c1")
    \/ VerifyEmail("c1")
    \/ AdminUser("c1", TokenPatches)
    \/ Tick

SpecToken == Init /\ [][NextToken]_vars

\* the routes that validate a body, write a record or return identity
\* records, for one client
PromotePatches == {patch \in AdminPatches :
                      "isAdmin" \in DOMAIN patch /\ patch.isAdmin}

CreateBetCodeRoute(c) ==
    \/ \E body \in BetCodeBodies : CreateBetCodeBegin(c, body)
    \/ \E fail \in BOOLEAN : CreateBetCode(c, fail)

IdentityReads(c) ==
    \/ \E k \in AdminCookies, fail \in BOOLEAN : AdminGetUsers(c, k, fail)
    \/ GetCurrentUser(c)
    \/ \E id \in 1..Cardinality(Names) : GetSeller(c, id)

\* the registrations of one handle, well-formed and not
RoutesRegBodies == {body \in RegBodies : body.username = "alice"}

NextRoutes ==
    \/ Register("c1", RoutesRegBodies)
    \/ \E n \in Names, p \in Plaintexts : Login("c1", n, p)
    \/ Logout("c1")
    \/ Profile("c1")
    \/ AdminUser("c1", PromotePatches)
    \/ IdentityReads("c1")
    \/ CreateBetCodeRoute("c1")
    \/ CreateAdvertisement("c1")

SpecRoutes == Init /\ [][NextRoutes]_vars

\* the back office: the fixed-credential login and the routes behind the
\* adminToken cookie, called with no cookie, a made-up one or an issued one
AdminSession(c) ==
    \/ \E body \in AdminLoginBodies, token \in AdminTokens :
          AdminLogin(c, body, token)
    \/ \E k \in AdminCookies \cup adminIssued : AdminLogout(c, k)

AdminReads(c) ==
    \E op \in AdminListings, k \in AdminCookies \cup adminIssued,
       fail \in BOOLEAN : AdminListing(c, op, k, fail)

AdminEdits(c) ==
    \E k \in AdminCookies \cup adminIssued, id \in 1..Cardinality(Names),
       patch \in PromotePatches, fail \in BOOLEAN :
       AdminUpdateUser(c, k, id, patch, fail)

NextBackOffice ==
    \/ Register("c1", RoutesRegBodies)
    \/ \E n \in Names, p \in Plaintexts : Login("c1", n, p)
    \/ Logout("c1")
    \/ AdminSession("c1")
    \/ AdminReads("c1")
    \/ AdminEdits("c1")

SpecBackOffice == Init /\ [][NextBackOffice]_vars

\* ------------------------------------------------------------ the marketplace
\* the registrations of two identities
TraderBodies == {body \in DistinctRegBodies : insertUserSchemaOk(body)}

\* the row RegisterCreate and RegisterUpdate leave for a registration that
\* began at time 0 and drew that token
RegisteredRow(body, token) ==
    [createUser(insertUserSchema(body),
                hashPassword(body.password,
                             CHOOSE salt \in RequestSalts : TRUE))
        EXCEPT !.verificationToken = token,
               !.verificationTokenExpiry = TokenWindowMs]

\* client c1 has registered alice and client c2 has registered bob: each
\* holds the session its registration logged it into
InitRegistered ==
    /\ users = << RegisteredRow(CHOOSE body \in TraderBodies :
                                    body.username = "alice", 1),
                  RegisteredRow(CHOOSE body \in TraderBodies :
                                    body.username = "bob", 2) >>
    /\ sessions = [s \in Sids |-> IF s \in {1, 2} THEN s ELSE NoUser]
    /\ nextSid = 3
    /\ cookie = [c \in Conns |-> IF c = "c1" THEN 1 ELSE 2]
    /\ req = [c \in Conns |-> IdleReq]
    /\ last = IdleReq
    /\ now = 0
    /\ nextTok = 3
    /\ ads = <<>>
    /\ betCodes = <<>>
    /\ InitMarket
    /\ kdf = KdfIdle

PatchBetCodeRoute(c) ==
    \/ \E id \in 1..(MaxCodes + 1), patch \in BetCodePatches,
          fail \in BOOLEAN : PatchBetCodeBegin(c, id, patch, fail)
    \/ \E fail \in BOOLEAN : PatchBetCode(c, fail)

DeleteBetCodeRoute(c) ==
    \/ \E id \in 1..(MaxCodes + 1), fail \in BOOLEAN :
          DeleteBetCodeBegin(c, id, fail)
    \/ \E fail \in BOOLEAN : DeleteBetCode(c, fail)

\* alice lists bet codes; both identities try to change and delete them,
\* and the back office can give either the administrator flag
NextCodes ==
    \/ CreateBetCodeRoute("c1")
    \/ \E c \in Conns : PatchBetCodeRoute(c)
    \/ \E c \in Conns : DeleteBetCodeRoute(c)
    \/ AdminUser("c2", PromotePatches)

SpecCodes == InitRegistered /\ [][NextCodes]_vars

\* the purchase: alice lists a bet code, changes its price or hands it to
\* bob, and both try to buy it
BuyRoute(c) ==
    \/ \E body \in TransactionBodies, fail \in BOOLEAN :
          BuyBegin(c, body, fail)
    \/ \E fail \in BOOLEAN : Buy(c, fail)

NextTrade ==
    \/ CreateBetCodeRoute("c1")
    \/ PatchBetCodeRoute("c1")
    \/ \E c \in Conns : BuyRoute(c)

SpecTrade == InitRegistered /\ [][NextTrade]_vars

\* the review: alice lists a bet code, bob pays for it, the back office
\* sets the status of the payment, and bob writes reviews
AdminTransactionRoute(c) ==
    \/ \E k \in AdminCookies, id \in 1..(MaxTrades + 1),
          status \in TransactionStatuses, fail \in BOOLEAN :
          AdminTransactionBegin(c, k, id, status, fail)
    \/ \E fail \in BOOLEAN : AdminTransaction(c, fail)

ReviewRoute(c) ==
    \/ \E body \in ReviewBodies, fail \in BOOLEAN : ReviewBegin(c, body, fail)
    \/ \E fail \in BOOLEAN : ReviewCheckCode(c, fail)
    \/ \E fail \in BOOLEAN : ReviewCheckPurchase(c, fail)
    \/ \E fail \in BOOLEAN : ReviewCreate(c, fail)

NextReview ==
    \/ CreateBetCodeRoute("c1")
    \/ BuyRoute("c2")
    \/ AdminTransactionRoute("c1")
    \/ ReviewRoute("c2")

SpecReview == InitRegistered /\ [][NextReview]_vars

\* ------------------------------------------------------------ the advertisement query alone
AdDates == {NoDate, 0, TickMs, 2 * TickMs}
\* the rows of the first advertisement: every column the query reads
AdRows ==
    [isActive : BOOLEAN, startDate : AdDates, endDate : AdDates,
     placement : {"homepage", "all"}, country : {Null, "NG", "GH"},
     priority : {1, 5}]
\* a second advertisement, always listable, of the higher priority
SecondAdRows ==
    [isActive : {TRUE}, startDate : {NoDate}, endDate : {NoDate},
     placement : {"homepage"}, country : {Null, "NG"}, priority : {5}]

\* one day into the run, a table of two advertisements
InitAds ==
    /\ users = <<>>
    /\ sessions = [s \in Sids |-> NoUser]
    /\ nextSid = 1
    /\ cookie = [c \in Conns |-> NoSid]
    /\ req = [c \in Conns |-> IdleReq]
    /\ last = IdleReq
    /\ now = TickMs
    /\ nextTok = 1
    /\ \E first \in AdRows, second \in SecondAdRows : ads = <<first, second>>
    /\ betCodes = <<>>
    /\ InitMarket
    /\ kdf = KdfIdle

NextAds ==
    \E placement \in {Null, "homepage"}, country \in {Null, "NG"},
       fail \in BOOLEAN : GetAdvertisements("c1", placement, country, fail)

SpecAds == InitAds /\ [][NextAds]_vars

\* a re-issue and a verification of the same identity at the same time:
\* one client registers and asks for new links, another follows the links
NextResendRace ==
    \/ Register("c1", RoutesRegBodies)
    \/ Resend("c1")
    \/ VerifyEmail("c2")

SpecResendRace == Init /\ [][NextResendRace]_vars

\* the routes open to a visitor and to a session, with no back office
NextAccount ==
    \/ Register("c1", PrivilegedRegBodies)
    \/ \E n \in Names, p \in Plaintexts : Login("c1", n, p)
    \/ Logout("c1")
    \/ Resend("c1")
    \/ VerifyEmail("c1")
    \/ Profile("c1")

SpecAccount == Init /\ [][NextAccount]_vars

\* one identity's sessions, the back office setting and clearing its
\* administrator flag, and the route behind requireAdmin
FlagPatches == {patch \in AdminPatches : "isAdmin" \in DOMAIN patch}

NextFlag ==
    \/ Register("c1", RoutesRegBodies)
    \/ \E p \in Plaintexts : Login("c1", "alice", p)
    \/ Logout("c1")
    \/ AdminUser("c1", FlagPatches)
    \/ CreateAdvertisement("c1")

SpecFlag == Init /\ [][NextFlag]_vars

\* two clients register at the same time
RaceBodies == {body \in RegBodies : insertUserSchemaOk(body)}

NextRace ==
    \/ Register("c1", RaceBodies)
    \/ Register("c2", RaceBodies)

SpecRace == Init /\ [][NextRace]_vars

\* ============================================================ credential hashing alone
HashPlaintexts == Plaintexts \cup {"", "secret124", "Secret123"}

InitHash ==
    /\ users = <<>>
    /\ sessions = [s \in Sids |-> NoUser]
    /\ nextSid = 1
    /\ cookie = [c \in Conns |-> NoSid]
    /\ req = [c \in Conns |-> IdleReq]
    /\ last = IdleReq
    /\ now = 0
    /\ nextTok = 1
    /\ ads = <<>>
    /\ betCodes = <<>>
    /\ InitMarket
    /\ \E p \in HashPlaintexts, q \in HashPlaintexts,
          salt \in Salts, salt2 \in Salts :
          kdf = [KdfIdle EXCEPT !.pc = "start", !.p = p, !.q = q,
                                !.salt = salt, !.salt2 = salt2]

\* two hashPassword(q) calls, each with the salt it drew
HashTwice ==
    /\ kdf.pc = "start"
    /\ kdf' = [kdf EXCEPT !.pc = "hashed",
                          !.stored = hashPassword(kdf.q, kdf.salt),
                          !.stored2 = hashPassword(kdf.q, kdf.salt2)]
    /\ UNCHANGED <<users, sessions, nextSid, cookie, req, last, now, nextTok, ads, betCodes, market>>

\* comparePasswords(p, stored) on both verifiers
CompareBoth ==
    /\ kdf.pc = "hashed"
    /\ kdf' = [kdf EXCEPT !.pc = "compared",
                          !.result = comparePasswords(kdf.p, kdf.stored),
                          !.result2 = comparePasswords(kdf.p, kdf.stored2)]
    /\ UNCHANGED <<users, sessions, nextSid, cookie, req, last, now, nextTok, ads, betCodes, market>>

NextHash == HashTwice \/ CompareBoth

SpecHash == InitHash /\ [][NextHash]_vars

TypeOK ==
    /\ Len(users) <= Cardinality(Names)
    /\ nextSid \in 1..(MaxSid + 1)
    /\ nextTok \in 1..(MaxTok + 1)

\* ============================================================ properties
\* the requests being served and the response the latest step sent
AllReqs == {req[c] : c \in Conns} \cup {last}
GuardedRoutes == AuthRoutes \cup AdminRoutes

\* C1: on every route guarded by requireAuth the handler is invoked iff the
\* request's session is authenticated; otherwise the response is the 401
\* "Unauthorized" error, the handler is not invoked and the step that
\* rejects the request changes no store record.
C1_RequireAuthGate ==
    /\ [](\A r \in AllReqs : r.op \in AuthRoutes =>
            /\ r.invoked <=> r.authed
            /\ ~r.authed => /\ r.pc = "done"
                            /\ r.status = 401
                            /\ r.msg = "Unauthorized")
    /\ [][(last'.op \in AuthRoutes /\ ~last'.authed) => store' = store]_vars

\* C1 witness: with an identity registered, a request without a session was
\* turned away by requireAuth.
C1_Witness ==
    /\ last.op \in AuthRoutes
    /\ last.status = 401
    /\ last.sid = NoSid
    /\ ~last.invoked
    /\ Len(users) > 0

\* C2: requireAdmin lets a request through iff its session is authenticated
\* and the attached identity's administrator flag is true; every other
\* request, an authenticated non-admin one included, gets the 403
\* "Forbidden" result (never 401) and the handler is not invoked.
C2_RequireAdminGate ==
    \A r \in AllReqs : r.op \in AdminRoutes =>
        /\ r.invoked <=> (r.authed /\ r.admin)
        /\ ~r.invoked => /\ r.pc = "done"
                         /\ r.status = 403
                         /\ r.msg = "Forbidden"

\* C2 witness: an authenticated identity without the administrator flag was
\* answered 403.
C2_Witness ==
    /\ last.op \in AdminRoutes
    /\ last.authed
    /\ ~last.admin
    /\ last.status = 403
    /\ ~last.invoked

\* C3 (as claimed): a login request authenticates the connection, with a
\* session bound to the identity, iff an identity with the submitted handle
\* exists and the submitted plaintext verifies against its stored verifier.
C3_LoginIffVerifies ==
    last.op = "login" =>
        ( (/\ last.status = 200
           /\ isAuthenticated(last.conn)
           /\ SessUid(last.conn) = last.uid)
          <=> (last.found /\ last.verdict = "true") )

\* C4 (as claimed): the response to a login whose handle exists but whose
\* plaintext does not verify is the response the same plaintext gets with a
\* handle that is not registered.
UnknownHandle == "nobody"
C4_LoginRejectionUniform ==
    (last.op = "login" /\ last.found /\ last.verdict # "true") =>
        LET other == LoginOutcome(UnknownHandle, last.password)
        IN  last.status = other.status /\ last.msg = other.msg

\* the verifier of identity i is the one registration derives from q
RegisteredWith(i, q) ==
    \E salt \in Salts : users[i].password = hashPassword(q, salt)

\* the latest step answered a login for identity i's handle with a
\* plaintext other than the password i is registered with
WrongPasswordLogin(i, resp) ==
    /\ resp.op = "login"
    /\ resp.username = users[i].username
    /\ \E q \in Plaintexts : RegisteredWith(i, q) /\ q # resp.password

\* C5 (as claimed): a login with a registered handle and any plaintext other
\* than the registered password fails with the generic invalid-credential
\* message, creates no session and changes no stored state.
C5_WrongPasswordGenericReject ==
    /\ [](\A i \in UserIds : WrongPasswordLogin(i, last) =>
            /\ last.status = 401
            /\ last.msg = InvalidCredentials)
    /\ [][\A i \in UserIds : WrongPasswordLogin(i, last') =>
            (store' = store /\ cookie' = cookie)]_vars

\* C5 (amended): such a login fails, creates no session and changes no
\* stored state; the response is the generic invalid-credential 401 when the
\* request passes the login schema, and the 400 that carries the schema's
\* message when it does not.
C5_WrongPasswordRejected ==
    /\ [](\A i \in UserIds : WrongPasswordLogin(i, last) =>
            LET check == loginSchemaCheck(last.username, last.password)
            IN  IF check = "ok"
                THEN last.status = 401 /\ last.msg = InvalidCredentials
                ELSE last.status = 400 /\ last.msg = check)
    /\ [][\A i \in UserIds : WrongPasswordLogin(i, last') =>
            (store' = store /\ cookie' = cookie)]_vars

\* C5 witness: a plaintext that passes the login schema but is not the
\* identity's password was answered with the generic 401.
C5_Witness ==
    /\ \E i \in UserIds : WrongPasswordLogin(i, last)
    /\ loginSchemaCheck(last.username, last.password) = "ok"
    /\ last.status = 401

\* C6: a logout that completes leaves the connection unauthenticated and its
\* session record destroyed; a destroyed session record never comes back, a
\* request passes requireAuth or requireAdmin only while the session its
\* cookie names is in the store, and a connection gets a new session only
\* from a successful login (req.login in the login or register route).
C6_LogoutDestroysSession ==
    /\ []((last.op = "logout" /\ last.status = 200) =>
            /\ ~isAuthenticated(last.conn)
            /\ last.sid # NoSid => sessions[last.sid] = NoUser)
    /\ [](\A r \in AllReqs : (r.op \in GuardedRoutes /\ r.invoked) =>
            (r.sid # NoSid /\ sessions[r.sid] # NoUser))
    /\ [][\A sid \in Sids : (sid < nextSid /\ sessions[sid] = NoUser) =>
            sessions'[sid] = NoUser]_vars
    /\ [][\A c \in Conns : cookie'[c] # cookie[c] =>
            /\ last'.conn = c
            /\ last'.op \in {"login", "register"}
            /\ last'.status \in {200, 201}]_vars

\* C6 witness: after a logout, a request carrying the cookie of the
\* destroyed session was turned away by a gate.
C6_Witness ==
    /\ last.op \in GuardedRoutes
    /\ last.sid # NoSid
    /\ sessions[last.sid] = NoUser
    /\ ~last.invoked
    /\ last.status \in {401, 403}

\* C7: for all plaintexts p, q and salts, comparePasswords(p, hashPassword(q))
\* is true iff p = q; two hashPassword(q) calls with different salts give
\* different verifiers and both verify q.
C7_VerifyIffSamePlaintext ==
    kdf.pc = "compared" =>
        /\ kdf.result = (IF kdf.p = kdf.q THEN "true" ELSE "false")
        /\ kdf.result2 = (IF kdf.p = kdf.q THEN "true" ELSE "false")
        /\ kdf.salt # kdf.salt2 => kdf.stored # kdf.stored2

\* C7 witness: one plaintext hashed under two salts, both verifiers verify it.
C7_Witness ==
    /\ kdf.pc = "compared"
    /\ kdf.p = kdf.q
    /\ kdf.salt # kdf.salt2
    /\ kdf.result = "true"
    /\ kdf.result2 = "true"

\* C8 (as claimed): a login that passes the login schema, for an identity
\* whose stored verifier has no delimiter, ends as the ordinary
\* invalid-credential rejection.
C8_MalformedVerifierRejected ==
    (/\ last.op = "login"
     /\ last.found
     /\ loginSchemaCheck(last.username, last.password) = "ok"
     /\ Len(SplitDot(users[last.uid].password)) < 2)
    => (last.status = 401 /\ last.msg = InvalidCredentials)

\* C9 (as claimed): each identity's verification token and token expiry are
\* either both set or both cleared.
C9_TokenExpiryPaired ==
    \A i \in UserIds :
        (users[i].verificationToken = NoToken)
            <=> (users[i].verificationTokenExpiry = NoExpiry)

\* C10 (as claimed): every identity in the store that is not e-mail verified
\* has a verification token and an expiry set.
C10_UnverifiedHasToken ==
    \A i \in UserIds : ~users[i].isEmailVerified =>
        /\ users[i].verificationToken # NoToken
        /\ users[i].verificationTokenExpiry # NoExpiry

\* ------------------------------------------------------------ e-mail verification
\* this step started a verify-email request on c that presents token t: it
\* was answered at once, or it now awaits its update
BeganVerify(c, t) ==
    /\ Free(c)
    /\ \/ req'[c].op = "verify" /\ req'[c].token = t
       \/ /\ req'[c] = IdleReq
          /\ last'.op = "verify" /\ last'.conn = c /\ last'.token = t
          /\ last'.pc = "done"

\* this step ended the request that c had in flight at program point pc
\* with a response of that status
Answered(c, pc, status) ==
    /\ req[c].pc = pc
    /\ last'.conn = c /\ last'.pc = "done" /\ last'.status = status

\* the identities that hold token t after the step
HoldersAfter(t) ==
    {i \in 1..Len(users') : users'[i].verificationToken = t}

\* a presented token that no identity holds is answered 404 "Invalid
\* Verification Link" and nothing changes
UnknownTokenNotFound ==
    \A c \in Conns, t \in 1..MaxTok :
        (BeganVerify(c, t) /\ getUserByVerificationToken(t) = {}) =>
            /\ last'.op = "verify" /\ last'.pc = "done"
            /\ last'.status = 404 /\ last'.msg = "Invalid Verification Link"
            /\ users' = users

\* a token that was issued, that no identity holds and that no request is
\* about to store is held by no identity after the step either
SpentTokenStaysSpent ==
    \A t \in 1..MaxTok :
        (/\ t < nextTok
         /\ getUserByVerificationToken(t) = {}
         /\ \A c \in Conns : ~(req[c].op \in {"register", "resend"}
                               /\ req[c].token = t))
        => HoldersAfter(t) = {}

\* C11: a verify-email request whose token is an identity's stored token,
\* presented before the stored expiry, is accepted; its update sets that
\* identity's verified flag, clears its token and its expiry and changes
\* nothing else; the token is then held by no identity, stays so, and a
\* request that presents it again is answered 404 not found.
C11_VerifyClearsToken ==
    /\ [][\A c \in Conns, t \in 1..MaxTok, u \in UserIds :
            (/\ BeganVerify(c, t)
             /\ users[u].verificationToken = t
             /\ now < users[u].verificationTokenExpiry)
            => (req'[c].pc = "verifyUpdate" /\ req'[c].uid = u)]_vars
    /\ [][\A c \in Conns : Answered(c, "verifyUpdate", 200) =>
            /\ users' = [users EXCEPT ![req[c].uid] =
                            [@ EXCEPT !.isEmailVerified = TRUE,
                                      !.verificationToken = NoToken,
                                      !.verificationTokenExpiry = NoExpiry]]
            /\ HoldersAfter(req[c].token) = {}]_vars
    /\ [][UnknownTokenNotFound]_vars
    /\ [][SpentTokenStaysSpent]_vars

\* C11 witness: the only token ever issued verified the only identity, and
\* presenting it again was answered 404.
C11_Witness ==
    /\ Len(users) = 1
    /\ nextTok = 2
    /\ users[1].isEmailVerified
    /\ users[1].verificationToken = NoToken
    /\ last.op = "verify"
    /\ last.token = 1
    /\ last.status = 404

\* C12: a verify-email request whose token is an identity's stored token,
\* presented after the stored expiry, is rejected, and the identity's
\* verified flag, token and expiry (the whole store) stay as they were.
C12_ExpiredTokenRejected ==
    [][\A c \in Conns, t \in 1..MaxTok, u \in UserIds :
          (/\ BeganVerify(c, t)
           /\ users[u].verificationToken = t
           /\ users[u].verificationTokenExpiry # NoExpiry
           /\ users[u].verificationTokenExpiry < now)
          => /\ last'.op = "verify"
             /\ last'.conn = c
             /\ last'.pc = "done"
             /\ last'.status >= 400
             /\ req'[c] = IdleReq
             /\ users' = users]_vars

\* C12 witness: the stored token of an unverified identity was presented
\* after its expiry and turned away; the identity still holds it.
C12_Witness ==
    /\ last.op = "verify"
    /\ last.status = 400
    /\ last.uid \in UserIds
    /\ users[last.uid].verificationToken = last.token
    /\ users[last.uid].verificationTokenExpiry < now
    /\ ~users[last.uid].isEmailVerified

\* C13: a resend-verification request of a session whose identity is already
\* verified is answered 400 "Your email is already verified"; no token is
\* drawn and the store (token and expiry included) stays as it was.
C13_ResendVerifiedRejected ==
    [][\A c \in Conns :
          (/\ Free(c)
           /\ isAuthenticated(c)
           /\ users[SessUid(c)].isEmailVerified
           /\ \/ req'[c].op = "resend"
              \/ last'.op = "resend" /\ last'.conn = c)
          => /\ req'[c] = IdleReq
             /\ last'.op = "resend"
             /\ last'.status = 400
             /\ last'.msg = "Your email is already verified"
             /\ nextTok' = nextTok
             /\ users' = users]_vars

\* C13 witness: a verified identity asked for a new link and got the 400.
C13_Witness ==
    /\ last.op = "resend"
    /\ last.status = 400
    /\ last.uid \in UserIds
    /\ users[last.uid].isEmailVerified
    /\ users[last.uid].verificationToken = NoToken

\* C14: the update of a successful resend-verification stores the token and
\* expiry that the request drew, a token different from the one the identity
\* held, which no identity holds any more; from then on the old token stays
\* unheld, and a verify-email request presenting it is answered 404 and
\* changes nothing.
C14_ResendOverwritesToken ==
    /\ [][\A c \in Conns : Answered(c, "resendUpdate", 200) =>
            LET u == req[c].uid
                old == users[u].verificationToken
            IN  /\ users'[u].verificationToken = req[c].token
                /\ users'[u].verificationTokenExpiry = req[c].expiry
                /\ req[c].token # NoToken
                /\ req[c].token # old
                /\ old # NoToken => HoldersAfter(old) = {}]_vars
    /\ [][UnknownTokenNotFound]_vars
    /\ [][SpentTokenStaysSpent]_vars

\* C14 witness: after a resend the identity holds the second token, and the
\* first one, presented to verify-email, was answered 404 and verified
\* nothing.
C14_Witness ==
    /\ Len(users) = 1
    /\ users[1].verificationToken = 2
    /\ ~users[1].isEmailVerified
    /\ last.op = "verify"
    /\ last.token = 1
    /\ last.status = 404

\* C19: verify-email answers a token whose stored expiry has passed with 400
\* "Verification Link Expired" and a token no identity holds with 404
\* "Invalid Verification Link"; neither request changes an identity.
C19_ExpiredDistinctFromUnknown ==
    [][\A c \in Conns, t \in 1..MaxTok :
          BeganVerify(c, t) =>
              /\ (\E u \in UserIds :
                     /\ users[u].verificationToken = t
                     /\ users[u].verificationTokenExpiry # NoExpiry
                     /\ users[u].verificationTokenExpiry < now)
                 => /\ last'.op = "verify" /\ last'.pc = "done"
                    /\ last'.status = 400
                    /\ last'.msg = "Verification Link Expired"
                    /\ users' = users
              /\ (\A u \in UserIds : users[u].verificationToken # t)
                 => /\ last'.op = "verify" /\ last'.pc = "done"
                    /\ last'.status = 404
                    /\ last'.msg = "Invalid Verification Link"
                    /\ users' = users]_vars

\* C19 witness: while an identity holds an expired token, a token that no
\* identity holds was answered 404.
C19_Witness ==
    /\ last.op = "verify"
    /\ last.status = 404
    /\ last.token \in 1..(nextTok - 1)
    /\ \E u \in UserIds :
          /\ users[u].verificationToken \notin {NoToken, last.token}
          /\ users[u].verificationTokenExpiry # NoExpiry
          /\ users[u].verificationTokenExpiry < now

\* ------------------------------------------------------------ error handling
\* the messages that name the violated rules
ValidationMessages ==
    {ValidationMessage, "Username must be at least 3 characters",
     "Password must be at least 6 characters"}

\* C15: a request whose body fails its schema (register, login, create bet
\* code, create advertisement) is answered 400 with the message of the
\* validation error, and the step that rejects it writes nothing to the store
\* and changes no session.
C15_ValidationRejected ==
    /\ [](\A r \in AllReqs : r.zod =>
            /\ r.pc = "done"
            /\ r.status = 400
            /\ r.msg \in ValidationMessages)
    /\ [][last'.zod => (store' = store /\ cookie' = cookie)]_vars

\* C15 witness: an authenticated client's bet code without its required
\* fields was answered 400 by handleValidationError, nothing being stored.
C15_Witness ==
    /\ last.op = "createBetCode"
    /\ last.authed
    /\ last.zod
    /\ last.status = 400
    /\ betCodes = <<>>

\* C16 (as claimed): a request one of whose storage calls threw has been
\* answered, in that same step (the call is not tried again), with a 500.
C16_StorageErrorAnswered ==
    \A r \in AllReqs : r.failed => (r.pc = "done" /\ r.status = 500)

\* C17 (as claimed): no response body holds the password column of an
\* identity record.
C17_NoVerifierInResponse ==
    \A r \in AllReqs : "password" \notin r.fields

\* C18 (as claimed): on an operation behind requireAdmin, the response to a
\* request without an authenticated session differs from the response to an
\* authenticated request whose identity is not an administrator.
C18_ForbiddenDistinctFromUnauthenticated ==
    \A r \in AllReqs :
        (r.op \in AdminRoutes /\ r.pc = "done" /\ ~r.authed) =>
            LET unprivileged == requireAdminRejection(TRUE, FALSE)
            IN  <<r.status, r.msg>> # <<unprivileged.status, unprivileged.msg>>

\* C20 (as claimed): no two stored identities share a username or an email,
\* and a registration that ends while its username or email belongs to a
\* stored identity other than one it created is answered 400 "... already
\* exists" and creates neither an identity nor a session.
C20_UniqueHandles ==
    /\ [](\A i \in UserIds, j \in UserIds : i # j =>
            /\ users[i].username # users[j].username
            /\ users[i].email # users[j].email)
    /\ [][\A c \in Conns :
            (/\ req[c].pc \in {"idle", "regEmail", "regCreate"}
             /\ last'.op = "register" /\ last'.conn = c
             /\ req'[c] = IdleReq
             /\ \E i \in UserIds : \/ users[i].username = last'.username
                                   \/ users[i].email = last'.email)
            => /\ last'.status = 400
               /\ last'.msg \in {"Username already exists",
                                 "Email already exists"}
               /\ users' = users
               /\ sessions' = sessions
               /\ cookie' = cookie]_vars

\* ------------------------------------------------------------ token expiry
\* C21: register and resend-verification draw a token together with an
\* expiry 24 hours after the clock of that moment, carry the pair unchanged
\* to their update, and every token that appears in a row is the token of
\* such a request, stored with that request's expiry.
C21_ExpiryOneDayAfterIssue ==
    /\ [][\A c \in Conns :
            /\ (/\ req'[c].op \in {"register", "resend"}
                /\ req[c].token = NoToken
                /\ req'[c].token # NoToken)
               => req'[c].expiry = now + 24 * 60 * 60 * 1000
            /\ (/\ req[c].token # NoToken
                /\ req'[c].op = req[c].op
                /\ req'[c].token = req[c].token)
               => req'[c].expiry = req[c].expiry]_vars
    /\ [][\A u \in 1..Len(users') :
            (/\ users'[u].verificationToken # NoToken
             /\ \/ u > Len(users)
                \/ users[u].verificationToken # users'[u].verificationToken)
            => \E c \in Conns :
                  /\ req[c].op \in {"register", "resend"}
                  /\ req[c].uid = u
                  /\ users'[u].verificationToken = req[c].token
                  /\ users'[u].verificationTokenExpiry = req[c].expiry]_vars

\* C21 witness: a resend drew its token one day into the run and stored it
\* a day later: the stored expiry is the present moment, one day after the
\* issue, not one day after the write.
C21_Witness ==
    /\ last.op = "resend"
    /\ last.status = 200
    /\ now = 2 * 24 * 60 * 60 * 1000
    /\ users[last.uid].verificationToken # NoToken
    /\ users[last.uid].verificationTokenExpiry = now

\* ------------------------------------------------------------ the adminToken gate
AdminTokenRoutes == AdminListings \cup {"adminUser", "adminLogout"}

\* C22: on every route behind requireAdminToken the handler is invoked iff
\* the request carries a non-empty adminToken cookie, whether or not that
\* value was ever issued by POST /api/admin/login; without the cookie the
\* answer is 401 "Admin authentication required".
C22_AdminTokenPresenceOnly ==
    \A r \in AllReqs :
       r.op \in AdminTokenRoutes /\ r.pc = "done"
       => /\ r.invoked <=> r.adminToken # Null
          /\ ~r.invoked => /\ r.status = 401
                           /\ r.msg = "Admin authentication required"

\* C22 witness: before any admin login, a request with no session and a
\* made-up cookie has changed an identity record.
C22_Witness ==
    /\ last.op = "adminUser"
    /\ last.status = 200
    /\ last.adminToken = "forged"
    /\ ~last.authed
    /\ adminIssued = {}
    /\ users[last.uid].isAdmin

\* ------------------------------------------------------------ the admin listings
\* C23: GET /api/admin/users, /api/admin/betcodes and
\* /api/admin/transactions answer with data only a request that passes
\* requireAdmin: one whose session is authenticated as an identity that has
\* the administrator flag.
C23_AdminListingsBehindRequireAdmin ==
    \A r \in AllReqs :
       r.op \in AdminListings /\ r.status = 200
       => requireAdmin(r.authed, r.admin)

\* ------------------------------------------------------------ reviews
\* the identity has paid for the bet code and the payment stands
Purchased(uid, id) ==
    \E i \in 1..Len(transactions) :
       /\ transactions[i].buyerId = uid
       /\ transactions[i].betCodeId = id
       /\ transactions[i].status = "completed"

\* a review request reaches createReview with a bet code only past the
\* purchase check, and the row it carries names the session identity
ReviewPassesOnlyPurchased ==
    \A c \in Conns :
       /\ (/\ req'[c].op = "review"
           /\ req'[c].pc = "reviewCreate"
           /\ req[c].pc # "reviewCreate"
           /\ req'[c].target # NoBetCode)
          => Purchased(SessUid(c), req'[c].target)
       /\ (req'[c].op = "review" /\ req'[c].pc # "idle")
          => /\ req'[c].body.reviewerId = SessUid(c)
             /\ "betCodeId" \in DOMAIN req'[c].body
                   <=> req'[c].target # NoBetCode
             /\ req'[c].target # NoBetCode
                   => req'[c].body.betCodeId = req'[c].target

\* the reviews table changes only by the insert of such a row
ReviewStoredByCreate ==
    \/ reviews' = reviews
    \/ \E c \in Conns :
          /\ req[c].pc = "reviewCreate"
          /\ reviews' = Append(reviews, req[c].body)
          /\ last'.op = "review"
          /\ last'.status = 201

\* the request the step has answered: a review, authenticated, well-formed,
\* no storage call of which threw, and not accepted
ReviewRefused ==
    /\ last'.op = "review"
    /\ last'.pc = "done"
    /\ last'.authed
    /\ ~last'.zod
    /\ ~last'.failed
    /\ last'.status # 201

\* C24 (as the code has it): a review that references a bet code reaches
\* the insert only if, at the purchase check, the session identity is the
\* buyer of a completed transaction for that bet code; the stored row's
\* reviewerId is the session identity whatever the body said; a refused
\* request stores nothing and is answered 404 when the seller or the bet
\* code does not exist and 403 when both exist and the purchase is missing.
C24_ReviewNeedsPurchase ==
    /\ [][ReviewPassesOnlyPurchased]_vars
    /\ [][ReviewStoredByCreate]_vars
    /\ [][ReviewRefused
          => /\ reviews' = reviews
             /\ last'.status \in {403, 404}
             /\ last'.status = 404
                   <=> \/ ~last'.found
                       \/ /\ last'.target # NoBetCode
                          /\ getBetCode(last'.target) = NoBetCode
             /\ last'.status = 403
                   => /\ last'.target # NoBetCode
                      /\ ~Purchased(last'.uid, last'.target)]_vars

\* C24 as stated: the same, but every refusal of a review that references
\* a bet code is a 403.
C24_RefusedWith403 ==
    /\ [][ReviewPassesOnlyPurchased]_vars
    /\ [][ReviewStoredByCreate]_vars
    /\ [][ReviewRefused /\ last'.target # NoBetCode
          => /\ reviews' = reviews
             /\ last'.status = 403]_vars

\* C24 witness: bob, who bought alice's bet code, has reviewed it with a
\* body that named alice as the reviewer; the stored row names bob.
C24_Witness ==
    /\ last.op = "review"
    /\ last.status = 201
    /\ last.target # NoBetCode
    /\ reviews # <<>>
    /\ reviews[Len(reviews)].reviewerId = last.uid
    /\ reviews[Len(reviews)].reviewerId # reviews[Len(reviews)].sellerId
    /\ Purchased(last.uid, last.target)

\* ------------------------------------------------------------ bet code ownership
BetCodeEdits == {"patchBetCode", "deleteBetCode"}
\* the request that has just been answered was answered by its first step
AnsweredAtOnce(op) ==
    /\ last'.op = op
    /\ last'.pc = "done"
    /\ \E c \in Conns : last'.conn = c /\ req[c].pc = "idle"

\* C28: a PATCH or DELETE /api/betcodes/:id request goes on to its write
\* only if the bet code exists and the session identity is its seller or
\* has the administrator flag; a row changes only by the write of such a
\* request; an authenticated request for an unknown id is answered 404,
\* one by any other identity 403, and neither changes a row.
C28_OnlySellerOrAdminEdits ==
    /\ [][\A c \in Conns :
            (req[c].pc = "idle"
             /\ req'[c].pc \in {"betCodeUpdate", "betCodeDelete"})
            => /\ req'[c].op \in BetCodeEdits
               /\ getBetCode(req'[c].target) # NoBetCode
               /\ \/ betCodes[req'[c].target].sellerId = SessUid(c)
                  \/ users[SessUid(c)].isAdmin]_vars
    /\ [][\A i \in 1..Len(betCodes) :
            betCodes'[i] # betCodes[i]
            => \E c \in Conns :
                  /\ req[c].op \in BetCodeEdits
                  /\ req[c].pc \in {"betCodeUpdate", "betCodeDelete"}
                  /\ req[c].target = i]_vars
    /\ [][\A op \in BetCodeEdits :
            (AnsweredAtOnce(op) /\ last'.authed /\ ~last'.failed)
            => /\ betCodes' = betCodes
               /\ last'.status \in {403, 404}
               /\ last'.status = 404 <=> getBetCode(last'.target) = NoBetCode
               /\ last'.status = 403
                     => /\ betCodes[last'.target].sellerId # last'.uid
                        /\ ~users[last'.uid].isAdmin]_vars

\* C28 witness: bob, who is not the seller of the bet code but has been
\* given the administrator flag, has changed its price with his PATCH.
C28_Witness ==
    /\ last.op = "patchBetCode"
    /\ last.status = 200
    /\ getBetCode(last.target) # NoBetCode
    /\ betCodes[last.target].sellerId # last.uid
    /\ users[last.uid].isAdmin
    /\ betCodes[last.target].price = 700

Listable(placement, country) ==
    {i \in 1..Len(ads) :
        /\ ads[i].isActive
        /\ ads[i].startDate = NoDate \/ ads[i].startDate <= now
        /\ ads[i].endDate = NoDate \/ ads[i].endDate >= now
        /\ placement # Null => ads[i].placement = placement
        /\ country # Null => ads[i].country \in {country, Null}}

\* C25: the listing holds each listable advertisement once and nothing
\* else, an advertisement of higher priority before one of lower.
C25_ListingExactAndOrdered ==
    listing.pc = "done"
    => /\ {listing.result[j] : j \in 1..Len(listing.result)}
             = Listable(listing.placement, listing.country)
       /\ Len(listing.result)
             = Cardinality(Listable(listing.placement, listing.country))
       /\ \A j, k \in 1..Len(listing.result) :
             j < k => ads[listing.result[j]].priority
                         >= ads[listing.result[k]].priority

\* C25 witness: a query for a placement and a country lists the second
\* advertisement before the first, which has the lower priority, no
\* country, and start and end dates equal to the present moment.
C25_Witness ==
    /\ listing.pc = "done"
    /\ listing.placement # Null
    /\ listing.country # Null
    /\ listing.result = <<2, 1>>
    /\ ads[1].priority < ads[2].priority
    /\ ads[1].country = Null
    /\ ads[1].startDate = now
    /\ ads[1].endDate = now

\* ------------------------------------------------------------ re-issue against verification
\* C26: whatever the interleaving of resend-verification and verify-email
\* requests, an identity whose email-verified flag is true has no
\* verification token and no expiry stored.
C26_VerifiedHasNoToken ==
    \A i \in UserIds :
       users[i].isEmailVerified
       => /\ users[i].verificationToken = NoToken
          /\ users[i].verificationTokenExpiry = NoExpiry

\* ------------------------------------------------------------ the administrator flag
\* C27: with register, login, logout, resend-verification, verify-email and
\* profile update alone no identity ever has the administrator flag: a
\* registration stores it false (and stores the identity unverified)
\* whatever its body claims, and the write of a profile update changes
\* nothing but fullName and bankDetails of the session identity's row.
C27_NoSelfPromotion ==
    /\ [](\A i \in UserIds : ~users[i].isAdmin)
    /\ [][\A i \in 1..Len(users') :
            i > Len(users) => /\ ~users'[i].isAdmin
                              /\ ~users'[i].isEmailVerified
                              /\ users'[i].verificationToken = NoToken]_vars
    /\ [][\A c \in Conns :
            req[c].pc = "profileUpdate"
            => /\ Len(users') = Len(users)
               /\ \A i \in UserIds :
                     /\ i # req[c].uid => users'[i] = users[i]
                     /\ \A f \in UserColumns \ {"fullName", "bankDetails"} :
                           users'[i][f] = users[i][f]]_vars

\* C27 witness: an identity registered with isAdmin: true in its body has
\* sent a profile update with isAdmin: true; its name and bank details
\* changed, its flag is false.
C27_Witness ==
    /\ last.op = "profile"
    /\ last.status = 200
    /\ users[last.uid].fullName = "Alice A"
    /\ users[last.uid].bankDetails = "acct-1"
    /\ ~users[last.uid].isAdmin

\* ------------------------------------------------------------ the flag the admin gate reads
\* the request of client c that the step has begun: still being served, or
\* already answered
Begun(c) == IF req'[c].pc # "idle" THEN req'[c] ELSE last'

\* C30: a request to a requireAdmin route passes the gate iff, when it
\* arrives, its session is authenticated and the stored row of the
\* session's identity has the administrator flag: a change of the flag in
\* the store decides the next request of a session that already exists.
C30_AdminGateReadsStoredFlag ==
    [][\A c \in Conns :
          (/\ req[c].pc = "idle"
           /\ Begun(c).conn = c
           /\ Begun(c).op \in AdminRoutes)
          => /\ Begun(c).invoked
                   <=> /\ isAuthenticated(c)
                       /\ users[SessUid(c)].isAdmin
             /\ Begun(c).sid = cookie[c]
             /\ cookie'[c] = cookie[c]]_vars

\* C30 witness: the only session ever created published an advertisement
\* while its identity had the flag; the flag was then cleared in the store,
\* and the same session's next request is refused with 403.
C30_Witness ==
    /\ nextSid = 2
    /\ last.op = "createAd"
    /\ last.sid = 1
    /\ last.authed
    /\ ~last.invoked
    /\ last.status = 403
    /\ ads # <<>>
    /\ ~users[sessions[1]].isAdmin

====
